---- MODULE Spec2Model ----
(***************************************************************************)
(* A model of jina/peapods/pods/k8s.py: the Kubernetes-backed Pod          *)
(* controller (K8sPod), its deployment handles (K8sPod._K8sDeployment),    *)
(* the partitioning of the Pod arguments into head / worker deployment     *)
(* arguments, and the polling waits for start, restart and scale.          *)
(*                                                                         *)
(* Three specifications share the variables:                               *)
(*   SpecPartition  K8sPod.__init__ / update_pea_args over all arguments   *)
(*   SpecWait       the three waits of one deployment handle               *)
(*   Spec           the Pod-level operations over a fake platform          *)
(***************************************************************************)
EXTENDS Integers, Sequences, FiniteSets, TLC

VARIABLES
    args,                 \* K8sPod.args: the Pod arguments (Namespace)
    pc,                   \* position of the caller / the running operation
    deployment_args,      \* K8sPod.deployment_args, result of _parse_args
    k8s_head_deployment,  \* <<>> for None, else <<handle>>
    k8s_deployments,      \* the worker handles, in order
    stack,                \* the exit stack: handles whose __enter__ returned
    platform,             \* the platform: Deployment resources by dns name
    calls,                \* platform API calls since the last start, scale,
                          \* rolling_update, close or handle wait began
    op,                   \* the running Pod-level operation and its locals
    wait,                 \* the running handle-level wait and its locals
    result                \* how the last operation ended

vars == <<args, pc, deployment_args, k8s_head_deployment, k8s_deployments,
          stack, platform, calls, op, wait, result>>

(***************************************************************************)
(* Bounds of the model.                                                    *)
(***************************************************************************)
MaxShards == 2
MaxReplicas == 2
MaxUids == 2
MaxOps == 2
MaxPodUids == 1

(***************************************************************************)
(* Values.                                                                 *)
(***************************************************************************)
\* Python's None where an integer may stand (shard_id, status counts).
None == -1

\* K8sGrpcConnectionPool.K8S_PORT_IN and friends, kept symbolic.
K8S_PORT_IN == "K8S_PORT_IN"
K8S_PORT_USES_BEFORE == "K8S_PORT_USES_BEFORE"
K8S_PORT_USES_AFTER == "K8S_PORT_USES_AFTER"

\* An attribute the Namespace does not have.
Absent == "<absent>"

\* uses_with: None, or a dict given by its keys.
NoneDict == [none |-> TRUE, keys |-> {}]
Dict(ks) == [none |-> FALSE, keys |-> ks]

\* The Pod arguments the partitioning and the controller read.
Args(name, shards, replicas, pool, ub, ua, noblock, timeout) ==
    [ name |-> name, shards |-> shards, replicas |-> replicas,
      k8s_connection_pool |-> pool, k8s_namespace |-> "ns",
      uses_before |-> ub, uses_after |-> ua,
      noblock_on_start |-> noblock, timeout_ready |-> timeout,
      runtime_cls |-> "WorkerRuntime", pea_role |-> "WORKER",
      port_in |-> "args.port_in", shard_id |-> None,
      has_connection_list |-> FALSE, connection_list |-> <<>>,
      uses_before_address |-> Absent, uses_after_address |-> Absent,
      uses_with |-> NoneDict, dump_path |-> "None" ]

(***************************************************************************)
(* K8sPod._parse_deployment_args                                           *)
(***************************************************************************)
\* f'{self.name}-{i}' if shards > 1 else f'{self.name}'
ShardNameWrong(a, i, shards) ==
    IF shards > 2 THEN a.name \o "-" \o ToString(i) ELSE a.name
ShardName(a, i, shards) ==
    IF shards > 1 THEN a.name \o "-" \o ToString(i) ELSE a.name

\* One '"i": "name.ns.svc:port",' of the connection list: the entry and
\* its trailing comma, as two pieces of the string.
ConnectionEntry(a, i) ==
    << "\"" \o ToString(i) \o "\": \"" \o ShardName(a, i, a.shards) \o "."
         \o a.k8s_namespace \o ".svc:" \o K8S_PORT_IN \o "\"",
       "," >>

RECURSIVE ConnectionEntries(_, _)
ConnectionEntries(a, n) ==
    IF n <= 0 THEN <<>>
    ELSE ConnectionEntries(a, n - 1) \o ConnectionEntry(a, n - 1)

\* connection_list[:-1]: the string without its last character (every
\* piece that can be last here, "{" or ",", is one character).
DropLast(s) == IF Len(s) = 0 THEN s ELSE SubSeq(s, 1, Len(s) - 1)

\* The string built at lines 526-531, as its pieces in order.
ConnectionList(a) ==
    DropLast(<<"{">> \o ConnectionEntries(a, a.shards)) \o <<"}">>

\* Lines 518-533: the head deployment arguments of a non-gateway Pod.
HeadBase(a) ==
    [a EXCEPT !.replicas = 1, !.runtime_cls = "HeadRuntime",
              !.pea_role = "HEAD", !.port_in = K8S_PORT_IN]

HeadWithList(a) ==
    IF ~a.k8s_connection_pool
    THEN [HeadBase(a) EXCEPT !.has_connection_list = TRUE,
                             !.connection_list = ConnectionList(a)]
    ELSE HeadBase(a)

\* Lines 535-546 on an existing head.
HeadWithAddresses(a, h) ==
    [h EXCEPT
       !.uses_before_address =
           IF a.uses_before THEN "127.0.0.1:" \o K8S_PORT_USES_BEFORE ELSE @,
       !.uses_after_address =
           IF a.uses_after THEN "127.0.0.1:" \o K8S_PORT_USES_AFTER ELSE @]

\* Lines 548-556: the arguments of worker i.
WorkerArgs(a, i) ==
    [a EXCEPT !.shard_id = i, !.uses_before = FALSE, !.uses_after = FALSE,
              !.port_in = K8S_PORT_IN,
              !.pea_role = IF a.name = "gateway" THEN "GATEWAY" ELSE @]

WorkerCountOneLess(a) == a.shards - 1
WorkerCount(a) == a.shards

\* for i in range(n): ... append(cargs)   (nothing when n <= 0)
RECURSIVE WorkersUpTo(_, _)
WorkersUpTo(a, n) ==
    IF n <= 0 THEN <<>>
    ELSE Append(WorkersUpTo(a, n - 1), WorkerArgs(a, n - 1))

Workers(a) == WorkersUpTo(a, WorkerCount(a))

\* Lines 535-546 set an attribute of parsed_args['head_deployment'], which
\* is None for a gateway: AttributeError.
ParseRaises(a) == a.name = "gateway" /\ (a.uses_before \/ a.uses_after)

\* The whole function: error names the exception raised, "" for none.
\* head_deployment is <<>> for None.
_parse_deployment_args(a) ==
    IF ParseRaises(a)
    THEN [error |-> "AttributeError", head_deployment |-> <<>>,
          deployments |-> <<>>]
    ELSE [error |-> "",
          head_deployment |->
              IF a.name # "gateway"
              THEN <<HeadWithAddresses(a, HeadWithList(a))>>
              ELSE <<>>,
          deployments |-> Workers(a)]

\* self.deployment_args, the dict the Pod keeps.  handles_hold tells
\* whether the Namespace objects under 'deployments' are the very objects
\* the worker handles were given (K8sPod.__init__, deployment_args=args):
\* what a handle then sets on its deployment_args shows in the Pod's dict.
PodDeploymentArgs(parsed, handles_hold) ==
    [ error |-> parsed.error, head_deployment |-> parsed.head_deployment,
      deployments |-> parsed.deployments, handles_hold |-> handles_hold ]

NotParsed ==
    PodDeploymentArgs([error |-> "", head_deployment |-> <<>>,
                       deployments |-> <<>>], FALSE)

(***************************************************************************)
(* K8sPod._K8sDeployment.__init__ and K8sPod.__init__                      *)
(***************************************************************************)
\* kubernetes_deployment.to_dns_name: the names of this model are DNS-safe
\* already (lower case, no '/', '_' or '.').
to_dns_name(name) == name

\* getattr(self.deployment_args, 'replicas', 1): the attribute is there.
_K8sDeployment(name, pea_type, shard_id, dargs) ==
    [ name |-> name, dns_name |-> to_dns_name(name),
      head_port_in |-> K8S_PORT_IN, pea_type |-> pea_type,
      shard_id |-> shard_id, deployment_args |-> dargs,
      num_replicas |-> dargs.replicas ]

\* Lines 470-481.
HeadHandle(a, parsed) ==
    IF parsed.head_deployment # <<>>
    THEN << _K8sDeployment(a.name \o "-head", "head", None,
                           parsed.head_deployment[1]) >>
    ELSE <<>>

\* Lines 485-489: the name of worker i among n deployments.
HandleName(a, i, n) ==
    IF n > 1 THEN a.name \o "-" \o ToString(i) ELSE a.name

\* Lines 483-501.
WorkerHandles(a, parsed) ==
    [k \in 1..Len(parsed.deployments) |->
        _K8sDeployment(HandleName(a, k - 1, Len(parsed.deployments)),
                       "worker", k - 1, parsed.deployments[k])]

\* The handles of the Pod: the head, if any, then the workers.
AllHandles == k8s_head_deployment \o k8s_deployments

NoPlatform == [n \in {} |-> [exists |-> FALSE, replicas |-> 0]]
\* The locals of a Pod-level operation: the handle it is at, its arguments,
\* the old_uids dict of rolling_update.
\* awaited tells how each wait the operation has run ended, in order;
\* n counts the scale and rolling_update calls made so far; ret is the list
\* the deployments property returned; prev is the operation called before
\* this one and how it ended.
NoPrev == [kind |-> "none", result |-> "none", replicas |-> None]
OpAt(kind, replicas, dump_path, uses_with, n) ==
    [ kind |-> kind, i |-> 1, replicas |-> replicas,
      dump_path |-> dump_path, uses_with |-> uses_with,
      old_uids |-> [d \in {} |-> {}], awaited |-> <<>>, n |-> n,
      ret |-> <<>>, prev |-> NoPrev ]
Op(kind, replicas, dump_path, uses_with) ==
    [ OpAt(kind, replicas, dump_path, uses_with,
           IF kind \in {"scale", "rolling_update"} THEN op.n + 1 ELSE op.n)
      EXCEPT !.prev = [kind |-> op.kind, result |-> result,
                       replicas |-> op.replicas] ]
NoOp == OpAt("none", None, "None", NoneDict, 0)
NoWait == [kind |-> "none"]

\* K8sPod.__init__: partition, then build the handles.
Construct ==
    /\ pc = "new"
    /\ LET parsed == _parse_deployment_args(args) IN
       IF parsed.error # ""
       THEN /\ pc' = "raised"
            /\ result' = parsed.error
            /\ UNCHANGED <<deployment_args, k8s_head_deployment,
                           k8s_deployments, platform>>
       ELSE /\ pc' = "idle"
            /\ result' = "ok"
            /\ deployment_args' = PodDeploymentArgs(parsed, TRUE)
            /\ k8s_head_deployment' = HeadHandle(args, parsed)
            /\ k8s_deployments' = WorkerHandles(args, parsed)
            /\ platform' =
                 [n \in {h.dns_name : h \in
                          {(HeadHandle(args, parsed)
                              \o WorkerHandles(args, parsed))[k] :
                             k \in 1..(Len(HeadHandle(args, parsed))
                                        + Len(parsed.deployments))}}
                    |-> [exists |-> FALSE, replicas |-> 0]]
    /\ UNCHANGED <<args, stack, calls, op, wait>>

\* K8sPod.update_pea_args: self.deployment_args = self._parse_args(self.args).
\* The handles keep the argument objects they were built with, and the
\* Pod's dict now holds new ones.
update_pea_args ==
    /\ pc \in {"idle", "up"}
    /\ deployment_args' =
         PodDeploymentArgs(_parse_deployment_args(args), FALSE)
    /\ result' = "ok"
    /\ op' = Op("update_pea_args", None, "None", NoneDict)
    /\ UNCHANGED <<args, pc, k8s_head_deployment, k8s_deployments, stack,
                   platform, calls, wait>>

\* _K8sDeployment.to_node; the handle's k8s_namespace is that of the Pod's
\* arguments (common_args).
to_node(h) ==
    [ name |-> h.dns_name,
      head_host |-> h.dns_name \o "." \o args.k8s_namespace \o ".svc",
      head_port_in |-> h.head_port_in ]

\* [_.to_node() for _ in handles].
Nodes(handles) == [k \in 1..Len(handles) |-> to_node(handles[k])]

\* The list K8sPod.deployments builds (lines 672-680), once
\* k8s_deployments[0] is known to exist in the gateway case.
GatewayNodesAllWorkers == Nodes(k8s_deployments)
GatewayNodes == << to_node(k8s_deployments[1]) >>
PodNodes == Nodes(k8s_head_deployment) \o Nodes(k8s_deployments)

\* The deployments property is read: the node records, or IndexError from
\* self.k8s_deployments[0] on a gateway without workers.
deployments ==
    /\ pc = "idle"
    /\ IF args.name = "gateway"
       THEN IF Len(k8s_deployments) = 0
            THEN /\ result' = "IndexError"
                 /\ op' = Op("deployments", None, "None", NoneDict)
            ELSE /\ result' = "ok"
                 /\ op' = [Op("deployments", None, "None", NoneDict)
                             EXCEPT !.ret = GatewayNodes]
       ELSE /\ result' = "ok"
            /\ op' = [Op("deployments", None, "None", NoneDict)
                        EXCEPT !.ret = PodNodes]
    /\ UNCHANGED <<args, pc, deployment_args, k8s_head_deployment,
                   k8s_deployments, stack, platform, calls, wait>>

\* The state every specification starts from: nothing constructed yet.
PodNames == {"gateway", "enc"}
InitCommon ==
    /\ pc = "new"
    /\ deployment_args = NotParsed
    /\ k8s_head_deployment = <<>>
    /\ k8s_deployments = <<>>
    /\ stack = <<>>
    /\ platform = NoPlatform
    /\ calls = <<>>
    /\ op = NoOp
    /\ wait = NoWait
    /\ result = "none"

(***************************************************************************)
(* The platform, as the controller sees it through the API client.         *)
(* A Deployment resource is kept by dns name: whether it exists and the    *)
(* replica count last applied to it.  What a read or a list returns is     *)
(* the platform's to choose: any status, any set of pod UIDs, or an        *)
(* ApiException.                                                           *)
(***************************************************************************)
\* One call of the API client: what, on which Deployment, how it answered
\* ("ok", "ApiException", or for a delete a status that is not Success).
\* A list that answered carries the pod UIDs it returned.
Listed(n, uids) == [op |-> "list", name |-> n, res |-> "ok", uids |-> uids]
Call(o, n, r) == [op |-> o, name |-> n, res |-> r, uids |-> {}]

\* The environment of a run: the counts a status may show, the pod UIDs
\* that may be listed, the time an API call may take (ms).
Env(maxCount, maxUid, lats) ==
    [counts |-> {None} \cup 0..maxCount, uids |-> 1..maxUid, lats |-> lats]

(***************************************************************************)
(* The three waits of a handle: wait_start_success, wait_restart_success,  *)
(* wait_scale_success.  Time is kept in milliseconds since `now`.          *)
(***************************************************************************)
\* Lines 189-201: None when timeout_ready <= 0, else the timeout (in ms
\* here, in ns in the code: both sides of the comparison scaled alike).
timeout_nsZeroOnly(t) == IF t = 0 THEN None ELSE t
timeout_ns(t) == IF t <= 0 THEN None ELSE t

\* time.sleep(1.0) / asyncio.sleep(1.0), in ms.
SleepMs == 1000

\* The locals of a wait that has just been called on handle h.
NewWait(kind, h, scale_to, previous_uids) ==
    [ kind |-> kind, h |-> h, scale_to |-> scale_to,
      previous_uids |-> previous_uids,
      timeout |-> timeout_ns(args.timeout_ready),
      elapsed |-> 0, polls |-> 0, status |-> "running",
      exception_to_raise |-> FALSE,
      last |-> [ready |-> None, updated |-> None, replicas |-> None,
                uids |-> {}, listed |-> FALSE] ]

\* Lines 208-211.
StartReady(ready_replicas, num_replicas) ==
    ready_replicas # None /\ ready_replicas = num_replicas

\* Lines 327-330.
ScaleReadyNoneAsZero(ready_replicas, scale_to) ==
    (IF ready_replicas = None THEN 0 ELSE ready_replicas) = scale_to
ScaleReady(ready_replicas, scale_to) ==
    ready_replicas # None /\ ready_replicas = scale_to

\* Lines 436-444: any(uid in current_pods_uids for uid in uids).
_has_pod_with_uid(current_pods_uids, uids) ==
    \E uid \in uids : uid \in current_pods_uids

\* Lines 262-268.
RestartReadyCountsOnly(updated_replicas, replicas, num_replicas, has_pod_with_uid) ==
    /\ updated_replicas # None
    /\ updated_replicas = num_replicas
    /\ replicas = num_replicas
RestartReady(updated_replicas, replicas, num_replicas, has_pod_with_uid) ==
    /\ updated_replicas # None
    /\ updated_replicas = num_replicas
    /\ replicas = num_replicas
    /\ ~has_pod_with_uid

\* The handle a wait runs on.
WaitHandle == AllHandles[wait.h]

\* The loop condition of the three waits (lines 204, 250, 317).
LoopContinuesInclusive(w) == w.timeout = None \/ w.elapsed <= w.timeout
LoopContinues(w) == w.timeout = None \/ w.elapsed < w.timeout

\* The bound on the polls of a wait that has no deadline.
MaxPolls == 2

\* The deadline has passed at the top of the loop: fall out of the loop and
\* raise RuntimeFailToStart (lines 223-226, 293-296, 350-353).
WaitDeadline ==
    /\ wait.kind # "none"
    /\ wait.status = "running"
    /\ ~LoopContinues(wait)
    /\ wait' = [wait EXCEPT !.status = "raised"]
    /\ UNCHANGED <<args, pc, deployment_args, k8s_head_deployment,
                   k8s_deployments, stack, platform, calls, op, result>>

\* Lines 223-225, 293-295, 350-352: the message of the RuntimeFailToStart a
\* wait raises, as the pieces the f-strings put together.  wait_scale_success
\* words it as wait_restart_success does.
fail_msg(w) ==
    << " Deployment ", AllHandles[w.h].name,
       IF w.kind = "start" THEN " did not start with a timeout of "
       ELSE " did not restart with a timeout of ",
       ToString(args.timeout_ready) >>
    \o (IF w.exception_to_raise THEN << ": ", "repr(ApiException)" >>
        ELSE << >>)

\* A loop that would swallow the ApiException and poll again.
PollReadErrorRetried ==
    /\ wait.kind # "none"
    /\ wait.status = "running"
    /\ LoopContinues(wait)
    /\ wait.polls < MaxPolls
    /\ wait' = [wait EXCEPT !.polls = @ + 1, !.elapsed = @ + SleepMs]
    /\ calls' = Append(calls, Call("read", WaitHandle.dns_name, "ApiException"))
    /\ UNCHANGED <<args, pc, deployment_args, k8s_head_deployment,
                   k8s_deployments, stack, platform, op, result>>

\* The status read fails: except ApiException -> break, then raise.
PollReadError ==
    /\ wait.kind # "none"
    /\ wait.status = "running"
    /\ LoopContinues(wait)
    /\ wait' = [wait EXCEPT !.status = "raised", !.exception_to_raise = TRUE,
                            !.polls = @ + 1]
    /\ calls' = Append(calls, Call("read", WaitHandle.dns_name, "ApiException"))
    /\ UNCHANGED <<args, pc, deployment_args, k8s_head_deployment,
                   k8s_deployments, stack, platform, op, result>>

\* What one iteration does once its API calls have answered: return, or
\* sleep a second and go round again.
AfterPoll(w, ready, lat, last) ==
    IF ready
    THEN [w EXCEPT !.status = "returned", !.polls = @ + 1, !.last = last,
                   !.elapsed = @ + lat]
    ELSE [w EXCEPT !.polls = @ + 1, !.last = last,
                   !.elapsed = @ + lat + SleepMs]

\* One iteration of wait_start_success (lines 205-219) or of
\* wait_scale_success (lines 318-346): read the status, compare.
PollReady(env) ==
    /\ wait.kind \in {"start", "scale"}
    /\ wait.status = "running"
    /\ LoopContinues(wait)
    /\ wait.timeout = None => wait.polls < MaxPolls
    /\ \E ready_replicas \in env.counts, lat \in env.lats :
         wait' = AfterPoll(wait,
                   IF wait.kind = "start"
                   THEN StartReady(ready_replicas, WaitHandle.num_replicas)
                   ELSE ScaleReady(ready_replicas, wait.scale_to),
                   lat,
                   [wait.last EXCEPT !.ready = ready_replicas])
    /\ calls' = Append(calls, Call("read", WaitHandle.dns_name, "ok"))
    /\ UNCHANGED <<args, pc, deployment_args, k8s_head_deployment,
                   k8s_deployments, stack, platform, op, result>>

\* One iteration of wait_restart_success (lines 251-289): read the status,
\* list the pods, compare.
PollRestart(env) ==
    /\ wait.kind = "restart"
    /\ wait.status = "running"
    /\ LoopContinues(wait)
    /\ wait.timeout = None => wait.polls < MaxPolls
    /\ \E updated \in env.counts, replicas \in env.counts,
          current \in SUBSET env.uids, lat \in env.lats :
         wait' = AfterPoll(wait,
                   RestartReady(updated, replicas, WaitHandle.num_replicas,
                       _has_pod_with_uid(current, wait.previous_uids)),
                   lat,
                   [wait.last EXCEPT !.updated = updated,
                                     !.replicas = replicas,
                                     !.uids = current, !.listed = TRUE])
    /\ calls' = calls \o << Call("read", WaitHandle.dns_name, "ok"),
                            Call("list", WaitHandle.dns_name, "ok") >>
    /\ UNCHANGED <<args, pc, deployment_args, k8s_head_deployment,
                   k8s_deployments, stack, platform, op, result>>

\* The status read of wait_restart_success answers, the pod list fails.
PollListError(env) ==
    /\ wait.kind = "restart"
    /\ wait.status = "running"
    /\ LoopContinues(wait)
    /\ \E updated \in env.counts, replicas \in env.counts :
         wait' = [wait EXCEPT !.status = "raised",
                     !.exception_to_raise = TRUE, !.polls = @ + 1,
                     !.last = [@ EXCEPT !.updated = updated,
                                        !.replicas = replicas,
                                        !.uids = {}, !.listed = FALSE]]
    /\ calls' = calls \o << Call("read", WaitHandle.dns_name, "ok"),
                            Call("list", WaitHandle.dns_name, "ApiException") >>
    /\ UNCHANGED <<args, pc, deployment_args, k8s_head_deployment,
                   k8s_deployments, stack, platform, op, result>>

Poll(env) ==
    \/ WaitDeadline
    \/ PollReadError
    \/ PollReady(env)
    \/ PollRestart(env)
    \/ PollListError(env)

(***************************************************************************)
(* SpecWait: the waits of one handle, called directly.                     *)
(***************************************************************************)
MaxCount == 3

WaitEnv == Env(MaxCount, MaxUids, {0, 1000})

\* wait_start_success() on a handle.
HandleWaitStart ==
    /\ pc = "idle"
    /\ \E h \in 1..Len(AllHandles) :
         wait' = NewWait("start", h, None, {})
    /\ pc' = "handle_wait"
    /\ calls' = <<>>
    /\ UNCHANGED <<args, deployment_args, k8s_head_deployment,
                   k8s_deployments, stack, platform, op, result>>

\* wait_restart_success(previous_uids) on a handle.
HandleWaitRestart(env) ==
    /\ pc = "idle"
    /\ \E h \in 1..Len(AllHandles), previous_uids \in SUBSET env.uids :
         wait' = NewWait("restart", h, None, previous_uids)
    /\ pc' = "handle_wait"
    /\ calls' = <<>>
    /\ UNCHANGED <<args, deployment_args, k8s_head_deployment,
                   k8s_deployments, stack, platform, op, result>>

\* wait_scale_success(replicas) on a handle.
HandleWaitScale(env) ==
    /\ pc = "idle"
    /\ \E h \in 1..Len(AllHandles), replicas \in env.counts \ {None} :
         wait' = NewWait("scale", h, replicas, {})
    /\ pc' = "handle_wait"
    /\ calls' = <<>>
    /\ UNCHANGED <<args, deployment_args, k8s_head_deployment,
                   k8s_deployments, stack, platform, op, result>>

\* The wait is over: it returned, or raised RuntimeFailToStart.
HandleWaitEnd ==
    /\ pc = "handle_wait"
    /\ wait.status # "running"
    /\ pc' = "idle"
    /\ result' = IF wait.status = "returned" THEN "ok"
                 ELSE "RuntimeFailToStart"
    /\ wait' = NoWait
    /\ UNCHANGED <<args, deployment_args, k8s_head_deployment,
                   k8s_deployments, stack, platform, calls, op>>

InitWait ==
    /\ args \in {Args("enc", 1, r, TRUE, FALSE, FALSE, FALSE, t) :
                   r \in 0..MaxCount, t \in {0 - 1000, 0, 2000}}
    /\ InitCommon

NextWait ==
    \/ Construct
    \/ HandleWaitStart
    \/ HandleWaitRestart(WaitEnv)
    \/ HandleWaitScale(WaitEnv)
    \/ Poll(WaitEnv)
    \/ HandleWaitEnd

SpecWait == InitWait /\ [][NextWait]_vars

(***************************************************************************)
(* SpecDeadline: the waits of one handle with a deadline, in a run where   *)
(* the running wait is never left standing: the thread (or the coroutine   *)
(* the caller awaits) that runs the loop goes on to its next iteration,    *)
(* and an API call answers or raises.                                      *)
(***************************************************************************)
MaxDeadlineCount == 1
DeadlineEnv == Env(MaxDeadlineCount, MaxPodUids, {0, 1000})

InitDeadline ==
    /\ args \in {Args("enc", 1, r, TRUE, FALSE, FALSE, FALSE, t) :
                   r \in 0..MaxDeadlineCount, t \in {1000, 2000}}
    /\ InitCommon

NextDeadline ==
    \/ Construct
    \/ HandleWaitStart
    \/ HandleWaitRestart(DeadlineEnv)
    \/ HandleWaitScale(DeadlineEnv)
    \/ Poll(DeadlineEnv)
    \/ HandleWaitEnd

SpecDeadline ==
    InitDeadline /\ [][NextDeadline]_vars /\ WF_vars(Poll(DeadlineEnv))

(***************************************************************************)
(* The Pod-level operations: start, wait_start_success, scale,             *)
(* rolling_update, close.  pc is "idle" once constructed, "up" between     *)
(* operations once start was called, "closed" after close.                 *)
(***************************************************************************)
PodEnv == Env(MaxReplicas, MaxPodUids, {0})

\* Worker i of k8s_deployments as a position in AllHandles.
WorkerHNoHead(i) == i
WorkerH(i) == Len(k8s_head_deployment) + i

\* The replicas start() applies: _deploy_gateway (line 60) always 1,
\* _deploy_runtime (line 169) the handle's num_replicas.
DeployReplicas(h) == IF h.name = "gateway" THEN 1 ELSE h.num_replicas

\* The replicas _restart_runtime applies: _deploy_runtime(replace=True),
\* line 169, the handle's num_replicas.
RestartReplicasConfigured(h) == h.deployment_args.replicas
RestartReplicas(h) == h.num_replicas

Applied(p, h, n) == [p EXCEPT ![h.dns_name] = [exists |-> TRUE, replicas |-> n]]

\* K8sPod.start is called.
start ==
    /\ pc = "idle"
    /\ pc' = "start"
    /\ op' = Op("start", None, "None", NoneDict)
    /\ calls' = <<>>
    /\ UNCHANGED <<args, deployment_args, k8s_head_deployment,
                   k8s_deployments, stack, platform, wait, result>>

\* enter_context(handle) -> handle.__enter__ -> handle.start(): the deploy
\* call.  It raises, or applies the Deployment; then, unless
\* noblock_on_start, wait_start_success runs before __enter__ returns.
StartDeploy ==
    /\ pc = "start"
    /\ wait = NoWait
    /\ op.i <= Len(AllHandles)
    /\ LET h == AllHandles[op.i] IN
       \/ /\ calls' = Append(calls, Call("create", h.dns_name, "ApiException"))
          /\ pc' = "up"
          /\ result' = "ApiException"
          /\ UNCHANGED <<platform, stack, op, wait>>
       \/ /\ calls' = Append(calls, Call("create", h.dns_name, "ok"))
          /\ platform' = Applied(platform, h, DeployReplicas(h))
          /\ IF args.noblock_on_start
             THEN /\ stack' = Append(stack, op.i)
                  /\ op' = [op EXCEPT !.i = @ + 1]
                  /\ UNCHANGED wait
             ELSE /\ wait' = NewWait("start", op.i, None, {})
                  /\ UNCHANGED <<stack, op>>
          /\ UNCHANGED <<pc, result>>
    /\ UNCHANGED <<args, deployment_args, k8s_head_deployment,
                   k8s_deployments>>

\* The blocking wait inside handle.start() is over.  If it returned,
\* __enter__ returns and the handle's __exit__ is pushed on the exit stack;
\* if it raised, the exception leaves enter_context and K8sPod.start.
\* A start that would go on to the next handle whatever the wait's end.
StartWaitedIgnoresFailure ==
    /\ pc = "start"
    /\ wait # NoWait
    /\ wait.status # "running"
    /\ stack' = Append(stack, wait.h)
    /\ op' = [op EXCEPT !.i = @ + 1, !.awaited = Append(@, wait.status)]
    /\ wait' = NoWait
    /\ UNCHANGED <<pc, result, args, deployment_args, k8s_head_deployment,
                   k8s_deployments, platform, calls>>

StartWaited ==
    /\ pc = "start"
    /\ wait # NoWait
    /\ wait.status # "running"
    /\ IF wait.status = "returned"
       THEN /\ stack' = Append(stack, wait.h)
            /\ op' = [op EXCEPT !.i = @ + 1,
                                !.awaited = Append(@, wait.status)]
            /\ UNCHANGED <<pc, result>>
       ELSE /\ pc' = "up"
            /\ result' = "RuntimeFailToStart"
            /\ op' = [op EXCEPT !.awaited = Append(@, wait.status)]
            /\ UNCHANGED stack
    /\ wait' = NoWait
    /\ UNCHANGED <<args, deployment_args, k8s_head_deployment,
                   k8s_deployments, platform, calls>>

\* K8sPod.start returns self.
StartReturn ==
    /\ pc = "start"
    /\ wait = NoWait
    /\ op.i > Len(AllHandles)
    /\ pc' = "up"
    /\ result' = "ok"
    /\ UNCHANGED <<args, deployment_args, k8s_head_deployment,
                   k8s_deployments, stack, platform, calls, op, wait>>

\* The answers a delete may get: status Success, another status, an
\* ApiException.  Only the first removes the Deployment.
DeleteAnswers == {"ok", "Failure", "ApiException"}

\* The exit stack unwinds: _K8sDeployment.close() on every handle entered,
\* first in first out; `answers` is what each delete gets.
\* An unwinding that a raising delete would cut short.
RECURSIVE ClosedUntilError(_, _, _, _)
ClosedUntilError(p, log, st, answers) ==
    IF st = <<>> THEN [platform |-> p, calls |-> log]
    ELSE LET h == AllHandles[Head(st)]
             a == answers[Len(answers) - Len(st) + 1] IN
         IF a = "ApiException"
         THEN [platform |-> p,
               calls |-> Append(log, Call("delete", h.dns_name, a))]
         ELSE ClosedUntilError(
                IF a = "ok"
                THEN [p EXCEPT ![h.dns_name] = [@ EXCEPT !.exists = FALSE]]
                ELSE p,
                Append(log, Call("delete", h.dns_name, a)),
                Tail(st), answers)

RECURSIVE Closed(_, _, _, _)
Closed(p, log, st, answers) ==
    IF st = <<>> THEN [platform |-> p, calls |-> log]
    ELSE LET h == AllHandles[Head(st)]
             a == answers[Len(answers) - Len(st) + 1] IN
         Closed(IF a = "ok"
                THEN [p EXCEPT ![h.dns_name] = [@ EXCEPT !.exists = FALSE]]
                ELSE p,
                Append(log, Call("delete", h.dns_name, a)),
                Tail(st), answers)

\* K8sPod.close (the exit stack's close).
close ==
    /\ pc = "up"
    /\ \E answers \in [1..Len(stack) -> DeleteAnswers] :
         LET c == Closed(platform, <<>>, stack, answers) IN
         /\ platform' = c.platform
         /\ calls' = c.calls
    /\ stack' = <<>>
    /\ pc' = "closed"
    /\ op' = Op("close", None, "None", NoneDict)
    /\ result' = "ok"
    /\ UNCHANGED <<args, deployment_args, k8s_head_deployment,
                   k8s_deployments, wait>>

\* K8sPod.wait_start_success is called, as the step that follows start:
\* ValueError unless noblock_on_start.
wait_start_success ==
    /\ pc = "up"
    /\ op.kind = "start"
    /\ op' = Op("wait_start_success", None, "None", NoneDict)
    /\ IF ~args.noblock_on_start
       THEN /\ result' = "ValueError"
            /\ UNCHANGED pc
       ELSE /\ pc' = "wait_start"
            /\ UNCHANGED result
    /\ UNCHANGED <<args, deployment_args, k8s_head_deployment,
                   k8s_deployments, stack, platform, calls, wait>>

\* The next handle's wait_start_success begins: the head first, then the
\* workers in order.
PodWaitNext ==
    /\ pc = "wait_start"
    /\ wait = NoWait
    /\ op.i <= Len(AllHandles)
    /\ wait' = NewWait("start", op.i, None, {})
    /\ UNCHANGED <<args, pc, deployment_args, k8s_head_deployment,
                   k8s_deployments, stack, platform, calls, op, result>>

\* A handle's wait is over: go on, or (except: self.close(); raise) close
\* the Pod and raise.
PodWaitWaited ==
    /\ pc = "wait_start"
    /\ wait # NoWait
    /\ wait.status # "running"
    /\ IF wait.status = "returned"
       THEN /\ op' = [op EXCEPT !.i = @ + 1,
                                !.awaited = Append(@, wait.status)]
            /\ UNCHANGED <<pc, result, stack, platform, calls>>
       ELSE /\ \E answers \in [1..Len(stack) -> DeleteAnswers] :
                 LET c == Closed(platform, calls, stack, answers) IN
                 /\ platform' = c.platform
                 /\ calls' = c.calls
            /\ stack' = <<>>
            /\ pc' = "closed"
            /\ result' = "RuntimeFailToStart"
            /\ op' = [op EXCEPT !.awaited = Append(@, wait.status)]
    /\ wait' = NoWait
    /\ UNCHANGED <<args, deployment_args, k8s_head_deployment,
                   k8s_deployments>>

\* K8sPod.wait_start_success returns.
PodWaitReturn ==
    /\ pc = "wait_start"
    /\ wait = NoWait
    /\ op.i > Len(AllHandles)
    /\ pc' = "up"
    /\ result' = "ok"
    /\ UNCHANGED <<args, deployment_args, k8s_head_deployment,
                   k8s_deployments, stack, platform, calls, op, wait>>

(***************************************************************************)
(* K8sPod.scale                                                            *)
(***************************************************************************)
\* The replica counts a caller may ask for.
ScaleTargets == 0..MaxReplicas

\* K8sPod.scale(replicas) is called.
scale ==
    /\ pc = "up"
    /\ op.n < MaxOps
    /\ \E replicas \in ScaleTargets :
         op' = Op("scale", replicas, "None", NoneDict)
    /\ pc' = "scale"
    /\ calls' = <<>>
    /\ UNCHANGED <<args, deployment_args, k8s_head_deployment,
                   k8s_deployments, stack, platform, wait, result>>

\* Lines 599-600: deployment.scale(replicas) on the next worker, that is
\* patch_namespaced_deployment_scale.  It raises (always so when there is
\* no such Deployment), or the platform takes the new replica count.
\* A fan-out that would leave alone a Deployment the platform already
\* holds at the asked count.
ScaleFanOutSkipsPatched ==
    /\ pc = "scale"
    /\ op.i <= Len(k8s_deployments)
    /\ LET h == k8s_deployments[op.i] IN
       \/ /\ calls' = Append(calls, Call("patch_scale", h.dns_name, "ApiException"))
          /\ pc' = "up"
          /\ result' = "ApiException"
          /\ UNCHANGED <<platform, op>>
       \/ /\ platform[h.dns_name].exists
          /\ IF platform[h.dns_name].replicas = op.replicas
             THEN UNCHANGED <<calls, platform>>
             ELSE /\ calls' = Append(calls, Call("patch_scale", h.dns_name, "ok"))
                  /\ platform' = Applied(platform, h, op.replicas)
          /\ op' = [op EXCEPT !.i = @ + 1]
          /\ UNCHANGED <<pc, result>>
    /\ UNCHANGED <<args, deployment_args, k8s_head_deployment,
                   k8s_deployments, stack, wait>>

ScaleFanOut ==
    /\ pc = "scale"
    /\ op.i <= Len(k8s_deployments)
    /\ LET h == k8s_deployments[op.i] IN
       \/ /\ calls' = Append(calls, Call("patch_scale", h.dns_name, "ApiException"))
          /\ pc' = "up"
          /\ result' = "ApiException"
          /\ UNCHANGED <<platform, op>>
       \/ /\ platform[h.dns_name].exists
          /\ calls' = Append(calls, Call("patch_scale", h.dns_name, "ok"))
          /\ platform' = Applied(platform, h, op.replicas)
          /\ op' = [op EXCEPT !.i = @ + 1]
          /\ UNCHANGED <<pc, result>>
    /\ UNCHANGED <<args, deployment_args, k8s_head_deployment,
                   k8s_deployments, stack, wait>>

\* A for loop over n handles is done when its index has passed the last.
LoopDoneEarly(i, n) == i > 1
LoopDone(i, n) == i > n

\* The first loop is done: the second loop starts at the first worker.
ScaleFanOutDone ==
    /\ pc = "scale"
    /\ LoopDone(op.i, Len(k8s_deployments))
    /\ pc' = "scale_wait"
    /\ op' = [op EXCEPT !.i = 1]
    /\ UNCHANGED <<args, deployment_args, k8s_head_deployment,
                   k8s_deployments, stack, platform, calls, wait, result>>

\* Line 602: await deployment.wait_scale_success(replicas) begins.
ScaleWaitNext ==
    /\ pc = "scale_wait"
    /\ wait = NoWait
    /\ op.i <= Len(k8s_deployments)
    /\ wait' = NewWait("scale", WorkerH(op.i), op.replicas, {})
    /\ UNCHANGED <<args, pc, deployment_args, k8s_head_deployment,
                   k8s_deployments, stack, platform, calls, op, result>>

\* Line 603 when the wait returned: deployment.num_replicas = replicas.
\* When it raised, the exception leaves K8sPod.scale.
RecordNothing(h, replicas) == h
RecordReplicasAsShards(h, replicas) ==
    [h EXCEPT !.num_replicas = replicas, !.shard_id = replicas]
RecordReplicas(h, replicas) == [h EXCEPT !.num_replicas = replicas]

\* A scale that would undo its patches when a wait fails.
ScaleWaitedRollsBack ==
    /\ pc = "scale_wait"
    /\ wait # NoWait
    /\ wait.status # "running"
    /\ IF wait.status = "returned"
       THEN /\ k8s_deployments' =
                 [k8s_deployments EXCEPT
                    ![op.i] = RecordReplicas(@, op.replicas)]
            /\ op' = [op EXCEPT !.i = @ + 1,
                                !.awaited = Append(@, wait.status)]
            /\ UNCHANGED <<pc, result, platform, calls>>
       ELSE /\ pc' = "up"
            /\ result' = "RuntimeFailToStart"
            /\ op' = [op EXCEPT !.awaited = Append(@, wait.status)]
            /\ platform' = Applied(platform, k8s_deployments[op.i],
                                   k8s_deployments[op.i].num_replicas)
            /\ calls' = Append(calls,
                  Call("patch_scale", k8s_deployments[op.i].dns_name, "ok"))
            /\ UNCHANGED k8s_deployments
    /\ wait' = NoWait
    /\ UNCHANGED <<args, deployment_args, k8s_head_deployment, stack>>

ScaleWaited ==
    /\ pc = "scale_wait"
    /\ wait # NoWait
    /\ wait.status # "running"
    /\ IF wait.status = "returned"
       THEN /\ k8s_deployments' =
                 [k8s_deployments EXCEPT
                    ![op.i] = RecordReplicas(@, op.replicas)]
            /\ op' = [op EXCEPT !.i = @ + 1,
                                !.awaited = Append(@, wait.status)]
            /\ UNCHANGED <<pc, result>>
       ELSE /\ pc' = "up"
            /\ result' = "RuntimeFailToStart"
            /\ op' = [op EXCEPT !.awaited = Append(@, wait.status)]
            /\ UNCHANGED k8s_deployments
    /\ wait' = NoWait
    /\ UNCHANGED <<args, deployment_args, k8s_head_deployment, stack,
                   platform, calls>>

\* K8sPod.scale returns.
ScaleReturn ==
    /\ pc = "scale_wait"
    /\ wait = NoWait
    /\ op.i > Len(k8s_deployments)
    /\ pc' = "up"
    /\ result' = "ok"
    /\ UNCHANGED <<args, deployment_args, k8s_head_deployment,
                   k8s_deployments, stack, platform, calls, op, wait>>

(***************************************************************************)
(* K8sPod.rolling_update                                                   *)
(***************************************************************************)
\* The arguments a caller may pass: (dump_path, uses_with).
RollingArgs ==
    { <<"None", NoneDict>>, <<"dump", NoneDict>>, <<"dump", Dict({"k"})>> }

\* K8sPod.rolling_update(dump_path, uses_with=...) is called.
rolling_update ==
    /\ pc = "up"
    /\ op.n < MaxOps
    /\ \E a \in RollingArgs : op' = Op("rolling_update", None, a[1], a[2])
    /\ pc' = "rolling_update"
    /\ calls' = <<>>
    /\ UNCHANGED <<args, deployment_args, k8s_head_deployment,
                   k8s_deployments, stack, platform, wait, result>>

\* Lines 361-365: the uses_with the handle stores.
MergedUsesWith(dump_path, uses_with) ==
    IF dump_path # "None"
    THEN IF ~uses_with.none
         THEN Dict(uses_with.keys \cup {"dump_path"})
         ELSE Dict({"dump_path"})
    ELSE uses_with

\* Line 363 as seen from K8sPod.rolling_update: uses_with['dump_path'] =
\* dump_path writes into the dict that was passed, which is the caller's
\* and the one handed to every worker; a None stays None (line 365 makes a
\* new dict local to the handle's method).
PassedUsesWith(dump_path, uses_with) ==
    IF dump_path # "None" /\ ~uses_with.none
    THEN Dict(uses_with.keys \cup {"dump_path"})
    ELSE uses_with

\* Lines 366-367.
WithUpdate(h, dump_path, uses_with) ==
    [h EXCEPT !.deployment_args =
        [@ EXCEPT !.uses_with = MergedUsesWith(dump_path, uses_with),
                  !.dump_path = dump_path]]

\* Lines 366-367 as seen from the Pod: self.deployment_args of handle i is
\* the object at deployment_args['deployments'][i] for as long as the Pod
\* has not parsed anew, so the Pod's dict shows the handle's new arguments.
SharedUpdate(d, i, h) ==
    IF d.handles_hold
    THEN [d EXCEPT !.deployments[i] = h.deployment_args]
    ELSE d

\* Lines 586-588 for the next worker: get_pod_uids() into old_uids, then
\* the handle's rolling_update: the assertion, the new arguments, and
\* _restart_runtime, which applies the Deployment with replace=True and the
\* handle's num_replicas.
RollingFanOut ==
    /\ pc = "rolling_update"
    /\ op.i <= Len(k8s_deployments)
    /\ LET h == k8s_deployments[op.i]
           listed(r) == Append(calls, Call("list", h.dns_name, r)) IN
       \/ /\ calls' = listed("ApiException")
          /\ pc' = "up"
          /\ result' = "ApiException"
          /\ UNCHANGED <<platform, op, k8s_deployments, deployment_args>>
       \/ \E uids \in SUBSET PodEnv.uids :
            LET listedOk == Append(calls, Listed(h.dns_name, uids))
                snap == [n \in DOMAIN op.old_uids \cup {h.dns_name} |->
                           IF n = h.dns_name THEN uids ELSE op.old_uids[n]]
            IN
            IF h.name = "gateway"
            THEN /\ calls' = listedOk
                 /\ op' = [op EXCEPT !.old_uids = snap]
                 /\ pc' = "up"
                 /\ result' = "AssertionError"
                 /\ UNCHANGED <<platform, k8s_deployments, deployment_args>>
            ELSE /\ k8s_deployments' =
                      [k8s_deployments EXCEPT
                         ![op.i] = WithUpdate(@, op.dump_path, op.uses_with)]
                 /\ deployment_args' =
                      SharedUpdate(deployment_args, op.i,
                                   WithUpdate(h, op.dump_path, op.uses_with))
                 /\ \/ /\ calls' = Append(listedOk,
                                      Call("replace", h.dns_name, "ApiException"))
                       /\ op' = [op EXCEPT !.old_uids = snap,
                                   !.uses_with =
                                      PassedUsesWith(op.dump_path, @)]
                       /\ pc' = "up"
                       /\ result' = "ApiException"
                       /\ UNCHANGED platform
                    \/ /\ calls' = Append(listedOk,
                                      Call("replace", h.dns_name, "ok"))
                       /\ platform' = Applied(platform, h, RestartReplicas(h))
                       /\ op' = [op EXCEPT !.old_uids = snap, !.i = @ + 1,
                                   !.uses_with =
                                      PassedUsesWith(op.dump_path, @)]
                       /\ UNCHANGED <<pc, result>>
    /\ UNCHANGED <<args, k8s_head_deployment, stack, wait>>

\* The first loop is done: the second loop starts at the first worker.
RollingFanOutDone ==
    /\ pc = "rolling_update"
    /\ LoopDone(op.i, Len(k8s_deployments))
    /\ pc' = "restart_wait"
    /\ op' = [op EXCEPT !.i = 1]
    /\ UNCHANGED <<args, deployment_args, k8s_head_deployment,
                   k8s_deployments, stack, platform, calls, wait, result>>

\* Line 591: old_uids[deployment.dns_name] for worker i.
SnapshotForFirst(old_uids, i) == old_uids[k8s_deployments[1].dns_name]
SnapshotFor(old_uids, i) == old_uids[k8s_deployments[i].dns_name]

\* Line 591: await deployment.wait_restart_success(old_uids[dns_name]).
RollingWaitNext ==
    /\ pc = "restart_wait"
    /\ wait = NoWait
    /\ op.i <= Len(k8s_deployments)
    /\ wait' = NewWait("restart", WorkerH(op.i), None,
                       SnapshotFor(op.old_uids, op.i))
    /\ UNCHANGED <<args, pc, deployment_args, k8s_head_deployment,
                   k8s_deployments, stack, platform, calls, op, result>>

\* The wait is over: on to the next worker, or the exception leaves
\* K8sPod.rolling_update and the remaining workers are not awaited.
RollingWaited ==
    /\ pc = "restart_wait"
    /\ wait # NoWait
    /\ wait.status # "running"
    /\ IF wait.status = "returned"
       THEN /\ op' = [op EXCEPT !.i = @ + 1,
                                !.awaited = Append(@, wait.status)]
            /\ UNCHANGED <<pc, result>>
       ELSE /\ pc' = "up"
            /\ result' = "RuntimeFailToStart"
            /\ op' = [op EXCEPT !.awaited = Append(@, wait.status)]
    /\ wait' = NoWait
    /\ UNCHANGED <<args, deployment_args, k8s_head_deployment,
                   k8s_deployments, stack, platform, calls>>

\* K8sPod.rolling_update returns.
RollingReturn ==
    /\ pc = "restart_wait"
    /\ wait = NoWait
    /\ op.i > Len(k8s_deployments)
    /\ pc' = "up"
    /\ result' = "ok"
    /\ UNCHANGED <<args, deployment_args, k8s_head_deployment,
                   k8s_deployments, stack, platform, calls, op, wait>>

(***************************************************************************)
(* Spec: a Pod through its life.                                           *)
(***************************************************************************)
Init ==
    /\ args \in {Args(n, s, r, TRUE, FALSE, FALSE, nb, 1000) :
                   n \in PodNames, s \in 0..MaxShards,
                   r \in 1..MaxReplicas, nb \in BOOLEAN}
    /\ InitCommon

Next ==
    \/ Construct
    \/ update_pea_args
    \/ start
    \/ StartDeploy
    \/ StartWaited
    \/ StartReturn
    \/ wait_start_success
    \/ PodWaitNext
    \/ PodWaitWaited
    \/ PodWaitReturn
    \/ scale
    \/ ScaleFanOut
    \/ ScaleFanOutDone
    \/ ScaleWaitNext
    \/ ScaleWaited
    \/ ScaleReturn
    \/ rolling_update
    \/ RollingFanOut
    \/ RollingFanOutDone
    \/ RollingWaitNext
    \/ RollingWaited
    \/ RollingReturn
    \/ close
    \/ Poll(PodEnv)

Spec == Init /\ [][Next]_vars

(***************************************************************************)
(* SpecPartition: construction over every combination of arguments.        *)
(***************************************************************************)
InitPartition ==
    /\ args \in {Args(n, s, r, p, ub, ua, FALSE, 2000) :
                   n \in PodNames, s \in (0 - 1)..MaxShards,
                   r \in 1..MaxReplicas, p \in BOOLEAN,
                   ub \in BOOLEAN, ua \in BOOLEAN}
    /\ InitCommon

NextPartition ==
    \/ Construct
    \/ update_pea_args
    \/ deployments

SpecPartition == InitPartition /\ [][NextPartition]_vars

(***************************************************************************)
(* The properties.                                                         *)
(***************************************************************************)
\* The calls of the log, by position.
Positions == 1..Len(calls)

\* Call o on Deployment n answered before position j of the log.
AnsweredBefore(o, n, j) ==
    \E i \in 1..(j - 1) :
        calls[i].op = o /\ calls[i].name = n /\ calls[i].res = "ok"

WorkerNames == {k8s_deployments[k].dns_name : k \in 1..Len(k8s_deployments)}

\* C1: wait_restart_success returns on a poll only if, on that poll, the
\* updated-replica count and the total-replica count both equal the
\* handle's num_replicas and no pod UID of previous_uids is still listed;
\* so a poll showing updated = total = desired with a stale UID does not
\* return.
C1_RestartReturnsOnlyWhenAllThreeHold ==
    (wait.kind = "restart" /\ wait.status = "returned") =>
        /\ wait.last.listed
        /\ wait.last.updated = WaitHandle.num_replicas
        /\ wait.last.replicas = WaitHandle.num_replicas
        /\ wait.last.uids \cap wait.previous_uids = {}

\* desired = 3, updated = 3, total = 3, one stale UID listed: still waiting.
C1_Witness ==
    /\ wait.kind = "restart"
    /\ wait.status = "running"
    /\ wait.polls >= 1
    /\ WaitHandle.num_replicas = 3
    /\ wait.last.updated = 3
    /\ wait.last.replicas = 3
    /\ wait.last.listed
    /\ Cardinality(wait.last.uids \cap wait.previous_uids) = 1

\* C2: when start fails because the readiness wait of the second of two
\* workers fails, in a blocking start or in wait_start_success after a
\* non-blocking start, every Deployment created by that start has had a
\* delete issued and no handle remains entered.
C2_FailedStartDeletesEveryDeployment ==
    ( /\ pc \in {"up", "closed"}
      /\ op.kind \in {"start", "wait_start_success"}
      /\ result = "RuntimeFailToStart"
      /\ Len(k8s_head_deployment) = 1
      /\ Len(k8s_deployments) = 2
      /\ op.i = 3 )
    => /\ stack = <<>>
       /\ \A j \in Positions :
            (calls[j].op = "create" /\ calls[j].res = "ok") =>
                \E k \in (j + 1)..Len(calls) :
                    calls[k].op = "delete" /\ calls[k].name = calls[j].name

\* C3: in rolling_update the pod UIDs of a worker are listed right before
\* that worker's replace; every worker has been replaced before any wait
\* reads a status; and each wait runs on the worker the loop is at, with
\* the UIDs listed before that worker's replace.
C3_SnapshotThenReplaceThenWait ==
    op.kind = "rolling_update" =>
        /\ \A j \in Positions :
             calls[j].op = "replace" =>
                 /\ j > 1
                 /\ calls[j - 1].op = "list"
                 /\ calls[j - 1].res = "ok"
                 /\ calls[j - 1].name = calls[j].name
        /\ \A j \in Positions :
             calls[j].op = "read" =>
                 \A n \in WorkerNames : AnsweredBefore("replace", n, j)
        /\ wait.kind = "restart" =>
             /\ wait.h = Len(k8s_head_deployment) + op.i
             /\ \A n \in WorkerNames :
                  AnsweredBefore("replace", n, Len(calls) + 1)
             /\ \E j \in Positions :
                  /\ j > 1
                  /\ calls[j] = Call("replace", WaitHandle.dns_name, "ok")
                  /\ calls[j - 1] = Listed(WaitHandle.dns_name,
                                           wait.previous_uids)

\* The second of two workers is being awaited; the two snapshots differ.
C3_Witness ==
    /\ op.kind = "rolling_update"
    /\ pc = "restart_wait"
    /\ Len(k8s_deployments) = 2
    /\ op.i = 2
    /\ wait.kind = "restart"
    /\ wait.polls >= 1
    /\ op.old_uids[k8s_deployments[1].dns_name]
         # op.old_uids[k8s_deployments[2].dns_name]

(***************************************************************************)
(* C4: a failed wait_restart_success would not cancel the waits of the     *)
(* other workers.  K8sPod.rolling_update awaits the workers in a plain     *)
(* for loop (lines 590-591), so the exception of one await leaves the      *)
(* loop and the workers after it are never awaited.                        *)
(***************************************************************************)
\* C4: when a rolling_update fails on a wait, the wait of every worker
\* has nevertheless been run to its end.
C4_EveryWorkerAwaitedDespiteFailure ==
    (op.kind = "rolling_update" /\ pc = "up"
       /\ result = "RuntimeFailToStart")
    => Len(op.awaited) = Len(k8s_deployments)

\* The wait of the first of two workers failed; the second was not awaited.
C4_Witness ==
    /\ op.kind = "rolling_update"
    /\ pc = "up"
    /\ result = "RuntimeFailToStart"
    /\ Len(k8s_deployments) = 2
    /\ op.i = 1
    /\ op.awaited = <<"raised">>

\* C5: in K8sPod.scale the scale mutation has been issued on every worker
\* before any wait_scale_success starts or reads a status.
C5_ScaleFanOutThenWait ==
    op.kind = "scale" =>
        /\ \A j \in Positions :
             calls[j].op = "read" =>
                 \A n \in WorkerNames : AnsweredBefore("patch_scale", n, j)
        /\ wait.kind = "scale" =>
             \A n \in WorkerNames :
                 AnsweredBefore("patch_scale", n, Len(calls) + 1)

\* The first of two workers is being awaited after both were scaled.
C5_Witness ==
    /\ op.kind = "scale"
    /\ pc = "scale_wait"
    /\ Len(k8s_deployments) = 2
    /\ op.i = 1
    /\ wait.kind = "scale"
    /\ wait.polls >= 1

\* C6: scale and rolling_update make no platform call for the head, and
\* whatever calls were made, succeeded or failed, the head handle records
\* 1 replica and the deployment arguments it was built with.
C6_HeadUntouched ==
    k8s_head_deployment # <<>> =>
        /\ k8s_head_deployment[1].num_replicas = 1
        /\ k8s_head_deployment[1].deployment_args
             = _parse_deployment_args(args).head_deployment[1]
        /\ op.kind \in {"scale", "rolling_update"} =>
             /\ \A j \in Positions :
                  calls[j].name # k8s_head_deployment[1].dns_name
             /\ wait.kind # "none" => wait.h # 1

\* A scale and a rolling_update have both gone through on a Pod with a
\* head: the workers record new replicas and new arguments.
C6_Witness ==
    /\ k8s_head_deployment # <<>>
    /\ pc = "up"
    /\ op.kind = "rolling_update"
    /\ op.n = 2
    /\ result = "ok"
    /\ Len(k8s_deployments) = 2
    /\ k8s_deployments[1].num_replicas # args.replicas
    /\ k8s_deployments[1].deployment_args.dump_path # "None"

\* C7: a non-gateway Pod with s >= 1 shards is partitioned into exactly s
\* worker arguments with shard ids 0..s-1 in order, and one head with
\* replicas 1 and the head role, whatever replicas were asked for.
C7_NonGatewayPartition ==
    (pc = "idle" /\ args.name # "gateway" /\ args.shards >= 1) =>
        /\ Len(deployment_args.deployments) = args.shards
        /\ \A k \in 1..Len(deployment_args.deployments) :
             deployment_args.deployments[k].shard_id = k - 1
        /\ Len(deployment_args.head_deployment) = 1
        /\ deployment_args.head_deployment[1].replicas = 1
        /\ deployment_args.head_deployment[1].pea_role = "HEAD"
        /\ Len(k8s_deployments) = args.shards
        /\ k8s_head_deployment # <<>>
        /\ k8s_head_deployment[1].num_replicas = 1

C7_Witness ==
    /\ pc = "idle"
    /\ args.name = "enc"
    /\ args.shards = 2
    /\ args.replicas = 2
    /\ Len(deployment_args.deployments) = 2

\* C8: a gateway Pod is partitioned into no head and exactly one worker,
\* whatever its shard count (1 or more), so the controller holds one
\* worker handle.
C8_GatewayHasOneWorker ==
    (pc = "idle" /\ args.name = "gateway" /\ args.shards >= 1) =>
        /\ deployment_args.head_deployment = <<>>
        /\ Len(deployment_args.deployments) = 1
        /\ k8s_head_deployment = <<>>
        /\ Len(k8s_deployments) = 1

\* C9: with a shard count below 1 the partitioning raises; it never
\* returns a partition.
C9_ShardsBelowOneRaises ==
    (args.shards < 1 /\ pc # "new") => pc = "raised"

\* C10: with the connection pool disabled the head of a non-gateway Pod
\* with s >= 1 shards carries the table "{" e0 "," e1 ... "}" whose entry i
\* is "i": "<name of worker handle i>.<namespace>.svc:<head-in port>", the
\* handles being named <pod>-<i> when s > 1 and <pod> when s = 1; with the
\* pool enabled it carries no table.
C10_StaticAddressTable ==
    (pc = "idle" /\ args.name # "gateway" /\ args.shards >= 1) =>
        LET head == deployment_args.head_deployment[1]
            table == head.connection_list
            s == args.shards
        IN  IF ~args.k8s_connection_pool
            THEN /\ head.has_connection_list
                 /\ Len(table) = 2 * s + 1
                 /\ table[1] = "{"
                 /\ table[Len(table)] = "}"
                 /\ \A i \in 1..(s - 1) : table[2 * i + 1] = ","
                 /\ \A i \in 0..(s - 1) :
                      /\ table[2 * i + 2] =
                           "\"" \o ToString(i) \o "\": \""
                             \o k8s_deployments[i + 1].name \o "."
                             \o args.k8s_namespace \o ".svc:"
                             \o K8S_PORT_IN \o "\""
                      /\ k8s_deployments[i + 1].name =
                           IF s > 1 THEN args.name \o "-" \o ToString(i)
                           ELSE args.name
            ELSE ~head.has_connection_list

\* name 'enc', 2 shards, pool disabled.
C10_Witness ==
    /\ pc = "idle"
    /\ args.name = "enc"
    /\ ~args.k8s_connection_pool
    /\ deployment_args.head_deployment # <<>>
    /\ deployment_args.head_deployment[1].connection_list =
         << "{", "\"0\": \"enc-0.ns.svc:K8S_PORT_IN\"", ",",
                 "\"1\": \"enc-1.ns.svc:K8S_PORT_IN\"", "}" >>

(***************************************************************************)
(* C11: a wait with a positive timeout whose condition is never met and    *)
(* whose API calls never fail ends, and ends by raising; with              *)
(* timeout_ready 2000 ms and the 1 s sleep it has polled once or twice.    *)
(* A wait that has not returned and met no ApiException is one whose       *)
(* every poll found the condition false.                                   *)
(***************************************************************************)
C11_WaitNeverSatisfied ==
    /\ wait.kind # "none"
    /\ wait.timeout = 2000
    /\ wait.status # "returned"
    /\ ~wait.exception_to_raise

\* C11: such a wait never polls more than twice, is over only by raising
\* after one or two polls, and every running wait with a deadline ends.
C11_DeadlineFailsAfterOneOrTwoPolls ==
    /\ [](C11_WaitNeverSatisfied =>
            /\ wait.polls <= 2
            /\ wait.status = "raised" => wait.polls \in 1..2)
    /\ [](( /\ wait.kind # "none"
            /\ wait.timeout # None
            /\ wait.status = "running")
          => <>(wait.kind = "none" \/ wait.status # "running"))

\* A restart wait that failed by deadline after two polls, neither of which
\* met the condition.
C11_Witness ==
    /\ C11_WaitNeverSatisfied
    /\ wait.kind = "restart"
    /\ wait.status = "raised"
    /\ wait.polls = 2
    /\ ~RestartReady(wait.last.updated, wait.last.replicas,
                     WaitHandle.num_replicas,
                     _has_pod_with_uid(wait.last.uids, wait.previous_uids))

(***************************************************************************)
(* C12: an ApiException met by a wait (reading the status, or listing the  *)
(* pods in wait_restart_success) is the last API call of that wait: the    *)
(* wait raises at once, deadline or none, with the exception's repr at     *)
(* the end of its message.  (calls holds the API calls of the wait.)       *)
(***************************************************************************)
\* C12: a failed API call of a wait is its last call, and the wait has
\* raised with the exception in its message.
C12_ApiErrorEndsWaitAtOnce ==
    \A j \in 1..Len(calls) :
       calls[j].res = "ApiException" =>
         /\ j = Len(calls)
         /\ wait.kind = "none" => result = "RuntimeFailToStart"
         /\ wait.kind # "none" =>
              /\ wait.status = "raised"
              /\ wait.exception_to_raise
              /\ fail_msg(wait)[Len(fail_msg(wait))] = "repr(ApiException)"

\* A restart wait without deadline that polled once, then met an
\* ApiException on listing the pods.
C12_Witness ==
    /\ wait.kind = "restart"
    /\ wait.timeout = None
    /\ wait.polls = 2
    /\ wait.status = "raised"
    /\ Len(calls) = 4
    /\ calls[3].res = "ok"
    /\ calls[4] = Call("list", WaitHandle.dns_name, "ApiException")

(***************************************************************************)
(* C13: with timeout_ready <= 0 a wait has no deadline: it ends only by    *)
(* returning or on an ApiException, and every poll that did not end it is  *)
(* followed by the one second sleep, so that the time spent is at least    *)
(* one second per poll that went round again.                              *)
(***************************************************************************)
\* C13: a wait with timeout_ready <= 0 raises only on an ApiException and
\* has slept a full second after each poll that did not end it.
C13_NoDeadlineNoBusyLoop ==
    (wait.kind # "none" /\ args.timeout_ready <= 0) =>
      /\ wait.timeout = None
      /\ wait.status = "raised" => wait.exception_to_raise
      /\ wait.status = "running" => wait.elapsed >= wait.polls * SleepMs
      /\ wait.status # "running" =>
           wait.elapsed >= (wait.polls - 1) * SleepMs

\* A scale wait with a negative timeout_ready that returned on its second
\* poll, past the second the first poll slept.
C13_Witness ==
    /\ wait.kind = "scale"
    /\ args.timeout_ready < 0
    /\ wait.polls = 2
    /\ wait.status = "returned"
    /\ wait.elapsed >= SleepMs

(***************************************************************************)
(* C14: the failure of a wait that ran out of time would carry the counts  *)
(* of its last poll.  The code raises RuntimeFailToStart both on the       *)
(* deadline and on an ApiException, with a message made of the name and    *)
(* timeout_ready (and the exception's repr in the second case).            *)
(***************************************************************************)
\* The status field the condition of a wait compares (lines 209, 263,
\* 328), as the last poll read it: None when the platform left it out.
LastObservedCount(w) ==
    IF w.kind = "restart" THEN w.last.updated ELSE w.last.ready

\* Lines 215, 274, 336: the count the else branch logs, count or 0.
OrZero(count) == IF count = None THEN 0 ELSE count
LoggedCount(w) == OrZero(LastObservedCount(w))

\* C14: the message of a wait that failed by deadline holds the count its
\* last poll observed.
C14_DeadlineFailureCarriesLastCounts ==
    ( /\ wait.kind # "none"
      /\ wait.status = "raised"
      /\ ~wait.exception_to_raise
      /\ wait.polls >= 1 ) =>
        \E k \in 1..Len(fail_msg(wait)) :
           fail_msg(wait)[k] = ToString(LoggedCount(wait))

(***************************************************************************)
(* C15: rolling_update on a gateway Pod would be refused whatever the      *)
(* shard count, with no replace sent and no handle's arguments touched.    *)
(* The refusal is the assertion self.name != 'gateway' of the handle, and  *)
(* a gateway of several shards has handles named gateway-0, gateway-1.     *)
(***************************************************************************)
\* C15: during and after a rolling_update of a gateway Pod no replace has
\* been sent, the workers' arguments are those of construction, and the
\* call never gets to await a restart.
C15_GatewayRollingUpdateRejected ==
    ( /\ args.name = "gateway"
      /\ args.shards >= 1
      /\ op.kind = "rolling_update" ) =>
        /\ \A j \in 1..Len(calls) : calls[j].op # "replace"
        /\ \A k \in 1..Len(k8s_deployments) :
              k8s_deployments[k].deployment_args =
                 _parse_deployment_args(args).deployments[k]
        /\ pc # "restart_wait"

(***************************************************************************)
(* C16: _K8sDeployment.close logs an ApiException or a status other than   *)
(* Success and returns, so that the close of the Pod sends a delete for    *)
(* every handle it entered, whatever the earlier deletes answered, and     *)
(* returns normally.                                                       *)
(***************************************************************************)
\* C16: close issues exactly one delete per entered handle, in the order
\* they were entered, and does not raise.
C16_CloseDeletesEveryEnteredHandle ==
    [][ (pc = "up" /\ pc' = "closed") =>
          /\ result' = "ok"
          /\ Len(calls') = Len(stack)
          /\ \A k \in 1..Len(stack) :
                /\ calls'[k].op = "delete"
                /\ calls'[k].name = AllHandles[stack[k]].dns_name ]_vars

\* A close of three entered handles in which the first delete met an
\* ApiException, the second answered a status that is not Success, and
\* the third was still sent.
C16_Witness ==
    /\ pc = "closed"
    /\ op.kind = "close"
    /\ Len(calls) = 3
    /\ calls[1].res = "ApiException"
    /\ calls[2].res = "Failure"
    /\ calls[3].op = "delete"

(***************************************************************************)
(* C17: the deployments property of a Pod with at least one shard.  For a  *)
(* gateway it is the one record of its first worker handle; otherwise the  *)
(* head's record, then one record per worker in shard order.  A record is  *)
(* the handle's dns name, '<dns name>.<namespace>.svc' and its head_port_in,*)
(* and reading the property changes nothing of the Pod.                    *)
(***************************************************************************)
\* The record expected of the handle named n.
C17_Record(n) ==
    [ name |-> n, head_host |-> n \o ".ns.svc",
      head_port_in |-> K8S_PORT_IN ]

\* C17: a step that reads deployments leaves the Pod as it was and returns
\* the records described above.
C17_TopologyIsOrderedProjection ==
    [][ (op'.kind = "deployments" /\ args.shards >= 1) =>
          /\ result' = "ok"
          /\ UNCHANGED <<args, pc, deployment_args, k8s_head_deployment,
                         k8s_deployments, stack, platform, calls, wait>>
          /\ IF args.name = "gateway"
             THEN op'.ret = << C17_Record(k8s_deployments[1].dns_name) >>
             ELSE /\ Len(op'.ret) = 1 + args.shards
                  /\ op'.ret[1] = C17_Record(args.name \o "-head")
                  /\ \A k \in 1..args.shards :
                        /\ k8s_deployments[k].shard_id = k - 1
                        /\ op'.ret[1 + k] =
                             C17_Record(k8s_deployments[k].dns_name) ]_vars

\* The property was read on a Pod of two shards: three records, the last
\* that of the second worker.
C17_Witness ==
    /\ op.kind = "deployments"
    /\ args.shards = 2
    /\ args.name = "enc"
    /\ Len(op.ret) = 3
    /\ op.ret[3].head_host = "enc-1.ns.svc"

(***************************************************************************)
(* C18: once the Pod is constructed its worker handles are as many as      *)
(* args.shards and stay the handles of construction (name, dns name,       *)
(* shard id, type, port) through start, scale, rolling_update,             *)
(* update_pea_args and close, whether they succeed or fail; a scale        *)
(* changes nothing of a handle but its num_replicas.                       *)
(***************************************************************************)
C18_SameHandle(h, g) ==
    /\ h.name = g.name
    /\ h.dns_name = g.dns_name
    /\ h.shard_id = g.shard_id
    /\ h.pea_type = g.pea_type
    /\ h.head_port_in = g.head_port_in

\* C18: the handle count is the shard count, the handles are those of
\* construction, and a step of scale changes at most num_replicas.
C18_HandleCountIsShardCount ==
    /\ [](pc \notin {"new", "raised"} =>
            /\ Len(k8s_deployments) = args.shards
            /\ \A k \in 1..Len(k8s_deployments) :
                  /\ k8s_deployments[k].shard_id = k - 1
                  /\ C18_SameHandle(k8s_deployments[k],
                        WorkerHandles(args, _parse_deployment_args(args))[k]))
    /\ [][ (pc \in {"scale", "scale_wait"}) =>
             /\ Len(k8s_deployments') = Len(k8s_deployments)
             /\ \A k \in 1..Len(k8s_deployments) :
                   k8s_deployments'[k] =
                     [k8s_deployments[k] EXCEPT
                        !.num_replicas = k8s_deployments'[k].num_replicas]
           ]_vars

\* A Pod of two shards closed after a scale that changed the replicas of
\* its workers and a second operation.
C18_Witness ==
    /\ pc = "closed"
    /\ op.n = 2
    /\ args.shards = 2
    /\ Len(k8s_deployments) = 2
    /\ k8s_deployments[2].num_replicas # args.replicas

(***************************************************************************)
(* C19: when a wait inside K8sPod.scale or K8sPod.rolling_update raises    *)
(* (deadline or ApiException) the operation ends there.  Nothing is sent   *)
(* to the platform after the failing wait's reads: every worker's          *)
(* Deployment keeps the replica count the scale patched (or the replace    *)
(* applied), none is deleted.                                              *)
(***************************************************************************)
\* A call that changes the platform.
C19_Mutation(c) == c.op \in {"create", "replace", "patch_scale", "delete"}

\* The operation kind ended with a failed wait and nothing was called since.
C19_WaitFailed(kind) ==
    /\ op.kind = kind
    /\ pc = "up"
    /\ result = "RuntimeFailToStart"

\* C19: after a failed wait of scale or rolling_update the log holds one
\* successful mutation per worker, all before the first read of a wait,
\* and the platform still holds what they applied.
C19_FailedWaitLeavesMutationsInPlace ==
    (C19_WaitFailed("scale") \/ C19_WaitFailed("rolling_update")) =>
      /\ \A k \in 1..Len(k8s_deployments) :
            LET n == k8s_deployments[k].dns_name IN
            /\ platform[n].exists
            /\ platform[n].replicas =
                 IF op.kind = "scale" THEN op.replicas
                 ELSE k8s_deployments[k].num_replicas
            /\ \E j \in 1..Len(calls) :
                  /\ C19_Mutation(calls[j])
                  /\ calls[j].name = n
                  /\ calls[j].res = "ok"
      /\ \A j \in 1..Len(calls) :
            C19_Mutation(calls[j]) =>
              /\ calls[j].op = IF op.kind = "scale" THEN "patch_scale"
                               ELSE "replace"
              /\ \A i \in 1..j : calls[i].op # "read"

\* A scale of two workers to a new replica count whose first wait failed:
\* both Deployments stay patched to the target.
C19_Witness ==
    /\ C19_WaitFailed("scale")
    /\ Len(k8s_deployments) = 2
    /\ op.awaited = << "raised" >>
    /\ op.replicas # k8s_deployments[1].num_replicas
    /\ platform[k8s_deployments[2].dns_name].replicas = op.replicas

(***************************************************************************)
(* C20: in a blocking start of a Pod with a head, and in the Pod's         *)
(* wait_start_success after a non-blocking start, a handle's readiness     *)
(* wait begins only when the waits of all the handles before it (the head  *)
(* first, then the workers by shard) have returned.                        *)
(***************************************************************************)
\* The position in AllHandles of the handle with dns name n.
C20_Position(n) ==
    CHOOSE k \in 1..Len(AllHandles) : AllHandles[k].dns_name = n

\* C20: while handle number h waits for readiness, exactly the h - 1
\* handles before it have been awaited, each successfully, and the status
\* reads in the log go through the handles in that order.
C20_HeadReadyBeforeWorkers ==
    ( /\ args.name # "gateway"
      /\ op.kind \in {"start", "wait_start_success"}
      /\ wait.kind = "start" ) =>
        /\ AllHandles[1].pea_type = "head"
        /\ Len(op.awaited) = wait.h - 1
        /\ \A k \in 1..Len(op.awaited) : op.awaited[k] = "returned"
        /\ \A k \in 2..Len(AllHandles) :
              AllHandles[k].shard_id = k - 2
        /\ \A i \in 1..Len(calls), j \in 1..Len(calls) :
              (i < j /\ calls[i].op = "read" /\ calls[j].op = "read") =>
                /\ C20_Position(calls[i].name) <= C20_Position(calls[j].name)
                /\ C20_Position(calls[j].name) <= wait.h

\* The blocking start of a Pod of two shards has reached the wait of the
\* second worker: the head's and the first worker's have returned.
C20_Witness ==
    /\ args.name = "enc"
    /\ args.shards = 2
    /\ op.kind = "start"
    /\ wait.kind = "start"
    /\ wait.h = 3
    /\ wait.polls >= 1
    /\ op.awaited = << "returned", "returned" >>

(***************************************************************************)
(* C21: start would issue the create of every handle whether or not the    *)
(* handles before it became ready.  In a blocking start a handle's         *)
(* start() deploys and then waits, inside enter_context, so the next       *)
(* handle is deployed only once that wait has returned.                    *)
(***************************************************************************)
\* C21: a blocking start that ended with the head's wait running out of
\* time (no API call failed) has issued a create for every worker.
C21_CreateNotGatedOnReadiness ==
    ( /\ args.name # "gateway"
      /\ args.shards >= 1
      /\ ~args.noblock_on_start
      /\ op.kind = "start"
      /\ pc = "up"
      /\ result = "RuntimeFailToStart"
      /\ op.awaited = << "raised" >>
      /\ \A j \in 1..Len(calls) : calls[j].res = "ok" ) =>
        \A k \in 1..Len(k8s_deployments) :
           \E j \in 1..Len(calls) :
              /\ calls[j].op = "create"
              /\ calls[j].name = k8s_deployments[k].dns_name

(***************************************************************************)
(* C22: K8sPod.scale would record the new replica count on the handles     *)
(* only once wait_scale_success has returned for every worker.  The code   *)
(* sets deployment.num_replicas inside the loop of the waits, after each   *)
(* worker's own wait.                                                      *)
(***************************************************************************)
\* C22: during the first scale of a Pod, to a count other than the
\* configured one, while some worker has not yet been awaited with
\* success no worker records the new count.
C22_RecordsOnlyAfterEveryWait ==
    ( /\ args.name # "gateway"
      /\ op.kind = "scale"
      /\ op.n = 1
      /\ op.replicas # args.replicas
      /\ \/ pc = "scale"
         \/ pc = "scale_wait" /\ op.i <= Len(k8s_deployments)
         \/ pc = "up" /\ result = "RuntimeFailToStart" ) =>
        \A k \in 1..Len(k8s_deployments) :
           k8s_deployments[k].num_replicas # op.replicas

(***************************************************************************)
(* C23: a scale or rolling_update called again after the same call failed  *)
(* in a wait sends its patch or replace to every worker once more, and     *)
(* returns when every wait has returned.  A scale(N) that returned leaves  *)
(* N recorded on every worker and applied to every worker's Deployment,    *)
(* whatever came before it, so that repeating it changes neither.          *)
(***************************************************************************)
\* The operation repeats the one called just before it.
C23_Retry ==
    /\ op.kind \in {"scale", "rolling_update"}
    /\ op.prev.kind = op.kind
    /\ op.kind = "scale" => op.prev.replicas = op.replicas

\* The successful patches or replaces of the log, as the names they went
\* to, in order.
C23_Issued ==
    LET what == IF op.kind = "scale" THEN "patch_scale" ELSE "replace"
        F[j \in 0..Len(calls)] ==
          IF j = 0 THEN << >>
          ELSE IF calls[j].op = what /\ calls[j].res = "ok"
               THEN Append(F[j - 1], calls[j].name)
               ELSE F[j - 1]
    IN F[Len(calls)]

\* C23: a repeated call that got to its waits has sent the mutation to
\* every worker, once each and in order; one that returned has had every
\* wait return and, for a scale, leaves N recorded and applied everywhere.
C23_RetryReissuesAndIsIdempotent ==
    /\ ( /\ C23_Retry
         /\ \/ pc \in {"scale_wait", "restart_wait"}
            \/ pc = "up" /\ result \in {"ok", "RuntimeFailToStart"} ) =>
           C23_Issued = [k \in 1..Len(k8s_deployments) |->
                           k8s_deployments[k].dns_name]
    /\ ( /\ op.kind \in {"scale", "rolling_update"}
         /\ pc = "up"
         /\ result = "ok" ) =>
           /\ op.awaited = [k \in 1..Len(k8s_deployments) |-> "returned"]
           /\ \A k \in 1..Len(k8s_deployments) :
                 LET h == k8s_deployments[k] IN
                 /\ platform[h.dns_name].replicas = h.num_replicas
                 /\ op.kind = "scale" => h.num_replicas = op.replicas

\* A scale of two workers that failed in a wait was called again with the
\* same count and returned.
C23_Witness ==
    /\ C23_Retry
    /\ op.kind = "scale"
    /\ op.prev.result = "RuntimeFailToStart"
    /\ pc = "up"
    /\ result = "ok"
    /\ Len(k8s_deployments) = 2
    /\ op.replicas # args.replicas

(***************************************************************************)
(* C24: with uses_before and/or uses_after configured the partition would  *)
(* complete for any Pod, gateway or not, the head (if any) holding the     *)
(* 127.0.0.1 addresses and every worker having both fields cleared.  The   *)
(* addresses are set on parsed_args['head_deployment'] whether or not a    *)
(* head was made.                                                          *)
(***************************************************************************)
\* C24: a Pod constructed from arguments with uses_before or uses_after
\* is partitioned without error, its head has the loopback addresses of
\* the executors configured, its workers have neither executor.
C24_PrePostAddressesOnHead ==
    ( /\ pc # "new"
      /\ args.shards >= 1
      /\ args.uses_before \/ args.uses_after ) =>
        /\ pc = "idle"
        /\ deployment_args.error = ""
        /\ \A k \in 1..Len(deployment_args.head_deployment) :
              LET h == deployment_args.head_deployment[k] IN
              /\ args.uses_before =>
                   h.uses_before_address =
                      "127.0.0.1:" \o K8S_PORT_USES_BEFORE
              /\ args.uses_after =>
                   h.uses_after_address =
                      "127.0.0.1:" \o K8S_PORT_USES_AFTER
        /\ Len(deployment_args.deployments) = args.shards
        /\ \A k \in 1..Len(deployment_args.deployments) :
              /\ ~deployment_args.deployments[k].uses_before
              /\ ~deployment_args.deployments[k].uses_after

(***************************************************************************)
(* C25: a worker handle's num_replicas changes only in the step that       *)
(* follows the return of wait_scale_success(N) on that very handle, and    *)
(* then to N.  So when K8sPod.scale(N) fails in the wait of worker k, the  *)
(* workers before k hold N, worker k and those after it hold what they     *)
(* held, and the platform holds N for all of them.                         *)
(***************************************************************************)
\* C25: every change of a worker's num_replicas is the recording of a
\* returned scale wait on it; after the first scale of a Pod failed in
\* the wait of worker k the recorded counts are N before k and the
\* configured count from k on, the applied counts N throughout.
C25_RecordedAfterOwnWaitOnly ==
    /\ [][ \A k \in 1..Len(k8s_deployments) :
             k8s_deployments'[k].num_replicas
                # k8s_deployments[k].num_replicas =>
               /\ pc = "scale_wait"
               /\ wait.kind = "scale"
               /\ wait.status = "returned"
               /\ wait.h = WorkerH(k)
               /\ k8s_deployments'[k].num_replicas = wait.scale_to
               /\ wait.scale_to = op.replicas ]_vars
    /\ []( ( /\ op.kind = "scale"
             /\ op.n = 1
             /\ pc = "up"
             /\ result = "RuntimeFailToStart" ) =>
            \A j \in 1..Len(k8s_deployments) :
               /\ k8s_deployments[j].num_replicas =
                    IF j < Len(op.awaited) THEN op.replicas
                    ELSE args.replicas
               /\ platform[k8s_deployments[j].dns_name].replicas
                    = op.replicas )

\* The first scale of a Pod of two shards, to a new count, failed in the
\* wait of the second worker: the first records the new count, the second
\* the configured one, the platform the new one for both.
C25_Witness ==
    /\ op.kind = "scale"
    /\ op.n = 1
    /\ pc = "up"
    /\ result = "RuntimeFailToStart"
    /\ args.name = "enc"
    /\ Len(k8s_deployments) = 2
    /\ op.awaited = << "returned", "raised" >>
    /\ op.replicas # args.replicas
    /\ k8s_deployments[1].num_replicas = op.replicas
    /\ k8s_deployments[2].num_replicas = args.replicas
    /\ platform["enc-1"].replicas = op.replicas

(***************************************************************************)
(* C26: what a rolling_update applies to a worker's Deployment, and what   *)
(* its wait_restart_success compares the status with, is the handle's      *)
(* num_replicas as it is when rolling_update is called: N on every worker  *)
(* after a scale(N) that returned, the count of before the scale on a      *)
(* worker whose scale wait failed.                                         *)
(***************************************************************************)
\* The workers a rolling_update has replaced so far.
C26_Replaced ==
    { k \in 1..Len(k8s_deployments) :
        \E j \in 1..Len(calls) :
           /\ calls[j].op = "replace"
           /\ calls[j].res = "ok"
           /\ calls[j].name = k8s_deployments[k].dns_name }

\* C26: during and after a rolling_update each replaced worker's
\* Deployment holds the handle's num_replicas, a restart wait returns only
\* on updated = total = num_replicas; that count is N right after a
\* scale(N) that returned, and the configured count for the last worker
\* right after a first scale that failed in a wait.
C26_RollingUpdateUsesRecordedCount ==
    op.kind = "rolling_update" =>
      /\ \A k \in C26_Replaced :
            LET h == k8s_deployments[k] IN
            /\ platform[h.dns_name].replicas = h.num_replicas
            /\ (op.prev.kind = "scale" /\ op.prev.result = "ok") =>
                 h.num_replicas = op.prev.replicas
            /\ ( /\ op.prev.kind = "scale"
                 /\ op.prev.result = "RuntimeFailToStart"
                 /\ op.n = 2
                 /\ k = Len(k8s_deployments) ) =>
                 platform[h.dns_name].replicas = args.replicas
      /\ (wait.kind = "restart" /\ wait.status = "returned") =>
            /\ wait.last.updated = WaitHandle.num_replicas
            /\ wait.last.replicas = WaitHandle.num_replicas

\* A rolling_update that returned right after a scale to another count
\* had failed in a wait: the last worker's Deployment is back at the
\* configured count.
C26_Witness ==
    /\ op.kind = "rolling_update"
    /\ op.prev.kind = "scale"
    /\ op.prev.result = "RuntimeFailToStart"
    /\ op.prev.replicas # args.replicas
    /\ pc = "up"
    /\ result = "ok"
    /\ Len(k8s_deployments) = 2
    /\ platform[k8s_deployments[2].dns_name].replicas = args.replicas

(***************************************************************************)
(* C27: a wait returns only on a poll whose status holds the compared      *)
(* count (ready_replicas for wait_start_success and wait_scale_success,    *)
(* updated_replicas for wait_restart_success): a count that is None meets  *)
(* no condition, not even that of 0 replicas.                              *)
(***************************************************************************)
\* The count a wait wants to see.
C27_Desired(w) ==
    IF w.kind = "scale" THEN w.scale_to ELSE AllHandles[w.h].num_replicas

\* C27: a wait that returned read, on its last poll, a count that is not
\* None and is the desired one; a wait whose last poll read None has not
\* returned.
C27_NoneCountNeverSucceeds ==
    (wait.kind # "none" /\ wait.polls >= 1) =>
      /\ wait.status = "returned" =>
           /\ LastObservedCount(wait) # None
           /\ LastObservedCount(wait) = C27_Desired(wait)
      /\ (LastObservedCount(wait) = None /\ ~wait.exception_to_raise) =>
           \/ wait.status = "running"
           \/ wait.status = "raised" /\ ~LoopContinues(wait)

\* A wait for a scale to 0 replicas that read None for ready_replicas on
\* both its polls and ended by its deadline.
C27_Witness ==
    /\ wait.kind = "scale"
    /\ wait.scale_to = 0
    /\ wait.polls = 2
    /\ wait.last.ready = None
    /\ wait.status = "raised"
    /\ ~wait.exception_to_raise

====
